---- MODULE Spec2Model ----
(***************************************************************************)
(* Model of tools/web-processor/src/lib.rs: the PaperProcessor document    *)
(* pipeline and the process_tar_archive reader.                            *)
(*                                                                         *)
(* Text is a sequence of one-character strings; "NUL" stands for the byte  *)
(* 0, "LF" for '\n', "CR" for '\r'.                                        *)
(*                                                                         *)
(* A usize or u64 byte count n is kept as the pair [b, r] with             *)
(* n = BlockSize * b + r and 0 <= r < BlockSize, so that counts up to      *)
(* 8^12 - 1 stay inside the checker's integers.  BlockSize divides 2^32,   *)
(* so reduction modulo 2^32 is reduction of b modulo UsizeBlocks.          *)
(***************************************************************************)
EXTENDS Integers, Sequences, FiniteSets, TLC

VARIABLES
    tar_data,      \* process_tar_archive: the buffer's whole 512-byte blocks
    tar_tail,      \* process_tar_archive: bytes after the last whole block
    overflow_checks, \* build profile: TRUE = arithmetic overflow panics
    offset,        \* process_tar_archive: the cursor
    files,         \* process_tar_archive: the output array
    tpc,           \* process_tar_archive: "loop", "done" or "panic"
    iterations,    \* history: how many times the loop body has run
    arg_filename,  \* process_single_paper: the filename argument
    arg_content,   \* process_single_paper: the content argument
    ppc,           \* process_single_paper: "call" before, "return" after
    outcome,       \* process_single_paper: Ok(paper) with the locals, or Err
    console,       \* the messages sent to console.log
    papers,        \* PaperProcessor.papers
    history,       \* history: the calls on the PaperProcessor since the last clear
    calls,         \* history: how many calls were made on the PaperProcessor
    arg_markdown,  \* markdown_to_html: the parser's events for the argument
    html_output,   \* markdown_to_html: the returned markup
    hpc            \* markdown_to_html: "call" before, "return" after

tarvars == <<tar_data, tar_tail, overflow_checks, offset, files, tpc, iterations>>

docvars == <<arg_filename, arg_content, ppc, outcome>>

procvars == <<papers, history, calls>>

htmlvars == <<arg_markdown, html_output, hpc>>

vars == <<tarvars, docvars, console, procvars, htmlvars>>

(***************************************************************************)
(* Machine arithmetic                                                      *)
(***************************************************************************)
BlockSize == 512
UsizeBits == 32
\* 2^UsizeBits / BlockSize
UsizeBlocks == 2 ^ (UsizeBits - 9)

Num(b, r) == [b |-> b, r |-> r]

Le(x, y) == x.b < y.b \/ (x.b = y.b /\ x.r <= y.r)
Lt(x, y) == Le(x, y) /\ x # y

\* x + y on usize: the wrapped sum and whether it overflowed
AddUsize(x, y) ==
    LET r == x.r + y.r
        b == x.b + y.b + (r \div BlockSize)
    IN  [val |-> Num(b % UsizeBlocks, r % BlockSize), ovf |-> b >= UsizeBlocks]

\* `v as usize` for a u64 v: truncation to the low UsizeBits bits
AsUsize(v) == Num(v.b % UsizeBlocks, v.r)

\* ((size + 511) / 512) * 512 on u64 (no u64 overflow below 8^12)
PaddedSize(size) == Num(size.b + (IF size.r > 0 THEN 1 ELSE 0), 0)

(***************************************************************************)
(* Header decoding                                                         *)
(***************************************************************************)
RECURSIVE Position(_, _, _)
\* bytes.iter().position(pred).unwrap_or(dflt), 0-based; stop is the set of
\* bytes the predicate accepts
Position(bytes, stop, dflt) ==
    IF bytes = <<>> THEN dflt
    ELSE IF Head(bytes) \in stop THEN 0
    ELSE LET p == Position(Tail(bytes), stop, dflt - 1) IN p + 1

EndsWith(s, suf) ==
    /\ Len(s) >= Len(suf)
    /\ SubSeq(s, Len(s) - Len(suf) + 1, Len(s)) = suf

DotMd == <<".", "m", "d">>

OctDigit == [c \in {"0", "1", "2", "3", "4", "5", "6", "7"} |->
    CASE c = "0" -> 0 [] c = "1" -> 1 [] c = "2" -> 2 [] c = "3" -> 3
      [] c = "4" -> 4 [] c = "5" -> 5 [] c = "6" -> 6 [] c = "7" -> 7]

RECURSIVE OctValue(_, _)
\* the digits' value accumulated onto acc, most significant digit first
OctValue(digits, acc) ==
    IF digits = <<>> THEN acc
    ELSE LET d == OctDigit[Head(digits)]
             r == acc.r * 8 + d
         IN  OctValue(Tail(digits), Num(acc.b * 8 + (r \div BlockSize), r % BlockSize))

\* u64::from_str_radix(s, 8).unwrap_or(0): an optional leading "+", then one
\* or more octal digits; anything else is an error, hence 0.  Twelve digits
\* stay below 2^64.
from_str_radix(s) ==
    LET digits == IF s # <<>> /\ Head(s) = "+" THEN Tail(s) ELSE s
    IN  IF digits # <<>> /\ \A i \in 1..Len(digits) : digits[i] \in DOMAIN OctDigit
        THEN OctValue(digits, Num(0, 0))
        ELSE Num(0, 0)

\* the end-of-archive test left out
HeaderAllZeroDropped(h) == h # h

\* header.iter().all(|&b| b == 0)
HeaderAllZero(h) ==
    /\ \A i \in 1..Len(h.name) : h.name[i] = "NUL"
    /\ \A i \in 1..Len(h.size) : h.size[i] = "NUL"
    /\ ~h.other

\* the name field up to its first NUL (or all of it)
HeaderFilename(h) == SubSeq(h.name, 1, Position(h.name, {"NUL"}, Len(h.name)))

\* the size field up to its first NUL or space, read as octal
HeaderSize(h) ==
    from_str_radix(SubSeq(h.size, 1, Position(h.size, {"NUL", " "}, Len(h.size))))

(***************************************************************************)
(* Text helpers: the std and regex operations the document pipeline uses   *)
(***************************************************************************)
WhiteSpace == {" ", "LF", "CR", "TAB"}
Digits == {"0", "1", "2", "3", "4", "5", "6", "7", "8", "9"}

UpperCase == <<"A", "B", "C", "D", "E", "F", "G", "H", "I", "J", "K", "L", "M", "N", "O", "P", "Q", "R", "S", "T", "U", "V", "W", "X", "Y", "Z">>
LowerCase == <<"a", "b", "c", "d", "e", "f", "g", "h", "i", "j", "k", "l", "m", "n", "o", "p", "q", "r", "s", "t", "u", "v", "w", "x", "y", "z">>

\* char::to_lowercase on the ASCII letters
LowerChar(c) ==
    IF \E k \in 1..Len(UpperCase) : UpperCase[k] = c
    THEN LowerCase[CHOOSE k \in 1..Len(UpperCase) : UpperCase[k] = c]
    ELSE c

\* str::to_lowercase
to_lowercase(s) == [i \in 1..Len(s) |-> LowerChar(s[i])]

\* s[i..] with a 1-based i
From(s, i) == SubSeq(s, i, Len(s))

\* str::starts_with
StartsWith(s, p) == Len(s) >= Len(p) /\ SubSeq(s, 1, Len(p)) = p

RECURSIVE FindFrom(_, _, _)
\* the first index >= i at which pat occurs in s, 0 when there is none
FindFrom(s, pat, i) ==
    IF i + Len(pat) - 1 > Len(s) THEN 0
    ELSE IF SubSeq(s, i, i + Len(pat) - 1) = pat THEN i
    ELSE FindFrom(s, pat, i + 1)

\* str::find: 1-based, 0 for None
Find(s, pat) == FindFrom(s, pat, 1)

RECURSIVE TrimStart(_)
TrimStart(s) ==
    IF s # <<>> /\ Head(s) \in WhiteSpace THEN TrimStart(Tail(s)) ELSE s

RECURSIVE TrimEnd(_)
TrimEnd(s) ==
    IF s # <<>> /\ s[Len(s)] \in WhiteSpace THEN TrimEnd(SubSeq(s, 1, Len(s) - 1)) ELSE s

\* str::trim
Trim(s) == TrimEnd(TrimStart(s))

\* a line that ended in LF loses one CR before it
StripCR(line) ==
    IF line # <<>> /\ line[Len(line)] = "CR" THEN SubSeq(line, 1, Len(line) - 1) ELSE line

RECURSIVE Lines(_)
\* str::lines: split at LF, CR LF counting as one line break; a last line
\* without LF is returned as it is, and no empty line follows a final LF
Lines(s) ==
    IF s = <<>> THEN <<>>
    ELSE LET i == Find(s, <<"LF">>)
         IN  IF i = 0 THEN <<s>>
             ELSE <<StripCR(SubSeq(s, 1, i - 1))>> \o Lines(From(s, i + 1))

RECURSIVE Join(_, _)
\* [&str]::join
Join(lines, sep) ==
    IF lines = <<>> THEN <<>>
    ELSE IF Len(lines) = 1 THEN lines[1]
    ELSE lines[1] \o sep \o Join(Tail(lines), sep)

\* Option: <<>> is None, <<v>> is Some(v)
None == <<>>
Some(v) == <<v>>

(***************************************************************************)
(* PaperProcessor: parse_markdown_sections                                 *)
(***************************************************************************)
HeadingMarker == <<"#", "#", " ">>

EmptyMap == [k \in {} |-> <<>>]

\* HashMap::insert
Insert(map, k, v) == (k :> v) @@ map

\* the loop's `sections.insert(section, current_content.join("\n").trim())`
SaveSection(sections, current_section, current_content) ==
    IF current_section # None
    THEN Insert(sections, current_section[1], Trim(Join(current_content, <<"LF">>)))
    ELSE sections

\* the loop without the save of the last section after the last line
RECURSIVE SectionsLoopNoLastSave(_, _, _, _)
SectionsLoopNoLastSave(lines, sections, current_section, current_content) ==
    IF lines = <<>> THEN sections
    ELSE LET line == Head(lines)
         IN  IF StartsWith(line, HeadingMarker)
             THEN SectionsLoopNoLastSave(Tail(lines),
                               SaveSection(sections, current_section, current_content),
                               Some(to_lowercase(From(line, 4))), <<>>)
             ELSE IF current_section # None
             THEN SectionsLoopNoLastSave(Tail(lines), sections, current_section,
                               Append(current_content, line))
             ELSE SectionsLoopNoLastSave(Tail(lines), sections, current_section, current_content)

\* the loop over the lines, then the save of the last section
RECURSIVE SectionsLoop(_, _, _, _)
SectionsLoop(lines, sections, current_section, current_content) ==
    IF lines = <<>> THEN SaveSection(sections, current_section, current_content)
    ELSE LET line == Head(lines)
         IN  IF StartsWith(line, HeadingMarker)
             THEN SectionsLoop(Tail(lines),
                               SaveSection(sections, current_section, current_content),
                               Some(to_lowercase(From(line, 4))), <<>>)
             ELSE IF current_section # None
             THEN SectionsLoop(Tail(lines), sections, current_section,
                               Append(current_content, line))
             ELSE SectionsLoop(Tail(lines), sections, current_section, current_content)

parse_markdown_sections(markdown) == SectionsLoop(Lines(markdown), EmptyMap, None, <<>>)

(***************************************************************************)
(* PaperProcessor: extract_toc                                             *)
(***************************************************************************)
TocHeading == <<"#", "#", " ", "T", "a", "b", "l", "e", " ", "o", "f", " ", "C", "o", "n", "t", "e", "n", "t", "s">>
NextHeading == <<"LF", "#", "#", " ">>
Bold == <<"*", "*">>

RECURSIVE CountLeading(_, _)
\* the length of the longest prefix of s made of characters of set
CountLeading(s, set) ==
    IF s # <<>> /\ Head(s) \in set THEN 1 + CountLeading(Tail(s), set) ELSE 0

\* item_regex.captures(line) for ^\d+\.\s+\*\*(.*?)\*\* : group 1, or None
ItemCapture(line) ==
    LET nd == CountLeading(line, Digits)
        afterDot == From(line, nd + 2)
        ns == CountLeading(afterDot, WhiteSpace)
        afterOpen == From(afterDot, ns + 3)
        close == Find(afterOpen, Bold)
    IN  IF /\ nd >= 1
           /\ Len(line) >= nd + 1
           /\ line[nd + 1] = "."
           /\ ns >= 1
           /\ StartsWith(From(afterDot, ns + 1), Bold)
           /\ close > 0
        THEN Some(SubSeq(afterOpen, 1, close - 1))
        ELSE None

RECURSIVE FilterMapItems(_)
\* lines.filter_map(|line| item_regex.captures(line).map(|cap| cap[1]))
FilterMapItems(lines) ==
    IF lines = <<>> THEN <<>>
    ELSE ItemCapture(Head(lines)) \o FilterMapItems(Tail(lines))

\* extract_toc with a window that runs to the end of the text
extract_toc_to_end(markdown) ==
    LET start == Find(markdown, TocHeading)
    IN  IF start > 0 THEN FilterMapItems(Lines(From(markdown, start))) ELSE <<>>

extract_toc(markdown) ==
    LET start == Find(markdown, TocHeading)
        after_toc == From(markdown, start)
        nxt == Find(after_toc, NextHeading)
        toc_section == IF nxt = 0 THEN after_toc ELSE SubSeq(after_toc, 1, nxt - 1)
    IN  IF start > 0 THEN FilterMapItems(Lines(toc_section)) ELSE <<>>


(***************************************************************************)
(* PaperProcessor: parse_frontmatter                                       *)
(***************************************************************************)
Dashes == <<"-", "-", "-">>
Letters == {UpperCase[k] : k \in 1..Len(UpperCase)} \cup {LowerCase[k] : k \in 1..Len(LowerCase)}

AllIn(s, set) == \A i \in 1..Len(s) : s[i] \in set

Max(S) == CHOOSE x \in S : \A y \in S : y <= x
Min(S) == CHOOSE x \in S : \A y \in S : x <= y

\* the ends f of a match of \s*\n that starts at index i of s
DelimiterEnds(s, i) ==
    {f \in i..Len(s) : s[f] = "LF" /\ AllIn(SubSeq(s, i, f - 1), WhiteSpace)}

\* the indexes c > e of an LF that starts a match of \n---\s*\n
ClosingStarts(s, e) ==
    {c \in (e + 1)..(Len(s) - 3) :
        /\ SubSeq(s, c, c + 3) = <<"LF">> \o Dashes
        /\ DelimiterEnds(s, c + 4) # {}}

\* frontmatter_regex.captures(content) for ^---\s*\n([\s\S]*?)\n---\s*\n([\s\S]*)$ :
\* the greedy \s* takes the longest run that lets the rest match, the lazy
\* group 1 the shortest
FrontmatterCaptures(content) ==
    LET opens == IF StartsWith(content, Dashes)
                 THEN {e \in DelimiterEnds(content, 4) : ClosingStarts(content, e) # {}}
                 ELSE {}
        e == Max(opens)
        c == Min(ClosingStarts(content, e))
        f == Max(DelimiterEnds(content, c + 4))
    IN  IF opens = {} THEN None
        ELSE Some([yaml |-> SubSeq(content, e + 1, c - 1), markdown |-> From(content, f + 1)])

\* one line `key: value` of the block; value is a word or a one-word flow
\* sequence [word].  Any other line is a syntax error.
YamlEntry(line) ==
    LET colon == Find(line, <<":", " ">>)
        key == SubSeq(line, 1, colon - 1)
        value == From(line, colon + 2)
        inner == SubSeq(value, 2, Len(value) - 1)
    IN  IF colon <= 1 \/ ~AllIn(key, Letters) \/ value = <<>> THEN [ok |-> FALSE]
        ELSE IF AllIn(value, Letters)
        THEN [ok |-> TRUE, key |-> key, kind |-> "string", value |-> value]
        ELSE IF Head(value) = "[" /\ value[Len(value)] = "]" /\ inner # <<>> /\ AllIn(inner, Letters)
        THEN [ok |-> TRUE, key |-> key, kind |-> "sequence", value |-> <<inner>>]
        ELSE [ok |-> FALSE]

TitleKey == <<"t", "i", "t", "l", "e">>
TocKey == <<"t", "o", "c">>

EmptyMetadata == [title |-> None, toc |-> None]

\* serde_yaml::from_str::<PaperMetadata> on a block of `key: value` lines: an
\* error for an empty document, a line that is no entry, a repeated key, a
\* title that is no string or a toc that is no sequence.  Of PaperMetadata
\* the fields title and toc are kept.
YamlParse(yaml) ==
    LET entries == [i \in 1..Len(Lines(yaml)) |-> YamlEntry(Lines(yaml)[i])]
        n == Len(entries)
        wellFormed ==
            /\ n > 0
            /\ \A i \in 1..n : entries[i].ok
            /\ \A i, j \in 1..n : entries[i].key = entries[j].key => i = j
            /\ \A i \in 1..n : entries[i].key = TitleKey => entries[i].kind = "string"
            /\ \A i \in 1..n : entries[i].key = TocKey => entries[i].kind = "sequence"
        field(k) == IF \E i \in 1..n : entries[i].key = k
                    THEN Some(entries[CHOOSE i \in 1..n : entries[i].key = k].value)
                    ELSE None
    IN  IF wellFormed
        THEN [ok |-> TRUE, metadata |-> [title |-> field(TitleKey), toc |-> field(TocKey)]]
        ELSE [ok |-> FALSE]

\* parse_frontmatter without the message for a text that has no block
parse_frontmatter_silent(content) ==
    LET captures == FrontmatterCaptures(content)
        parsed == YamlParse(captures[1].yaml)
    IN  IF captures # None
        THEN IF parsed.ok
             THEN [ok |-> TRUE, metadata |-> parsed.metadata,
                   markdown |-> captures[1].markdown, log |-> <<>>]
             ELSE [ok |-> FALSE, log |-> <<>>]
        ELSE [ok |-> TRUE, metadata |-> EmptyMetadata, markdown |-> content, log |-> <<>>]

\* Ok((metadata, markdown)) with the messages logged, or Err
parse_frontmatter(content) ==
    LET captures == FrontmatterCaptures(content)
        parsed == YamlParse(captures[1].yaml)
    IN  IF captures # None
        THEN IF parsed.ok
             THEN [ok |-> TRUE, metadata |-> parsed.metadata,
                   markdown |-> captures[1].markdown, log |-> <<>>]
             ELSE [ok |-> FALSE, log |-> <<>>]
        ELSE [ok |-> TRUE, metadata |-> EmptyMetadata, markdown |-> content,
              log |-> <<"No frontmatter found">>]

(***************************************************************************)
(* PaperProcessor: process_single_paper                                    *)
(***************************************************************************)
SummaryKey == <<"s", "u", "m", "m", "a", "r", "y">>
AbstractKey == <<"a", "b", "s", "t", "r", "a", "c", "t">>
NoSummary == <<"N", "o", " ", "s", "u", "m", "m", "a", "r", "y", " ", "a", "v", "a", "i", "l", "a", "b", "l", "e">>

\* filename.strip_suffix(".md").unwrap_or(filename)
Slug(filename) ==
    IF EndsWith(filename, DotMd) THEN SubSeq(filename, 1, Len(filename) - 3) ELSE filename

\* HashMap::get(key).cloned().unwrap_or(dflt)
GetOr(map, key, dflt) == IF key \in DOMAIN map THEN map[key] ELSE dflt

\* the toc field of the Paper
PaperToc(toc, metadata) ==
    IF toc # <<>> THEN toc
    ELSE IF metadata.toc # None THEN metadata.toc[1] ELSE <<>>

\* Ok(paper) or Err, with the locals `sections` and `toc` and the messages logged.  Of
\* Paper the fields html, last_updated, authors, tags, status and extra are
\* left out.
process_single_paper(filename, content) ==
    LET fm == parse_frontmatter(content)
        sections == parse_markdown_sections(fm.markdown)
        toc == extract_toc(fm.markdown)
        slug == Slug(filename)
    IN  IF ~fm.ok THEN [ok |-> FALSE, log |-> fm.log]
        ELSE [ok |-> TRUE,
              sections |-> sections,
              toc |-> toc,
              log |-> fm.log \o (IF fm.metadata.title = None
                                 THEN <<"WARNING: missing title">> ELSE <<>>),
              paper |-> [title |-> IF fm.metadata.title # None
                                   THEN fm.metadata.title[1] ELSE slug,
                         slug |-> slug,
                         filename |-> filename,
                         summary |-> GetOr(sections, SummaryKey, NoSummary),
                         abstract_text |-> GetOr(sections, AbstractKey, <<>>),
                         toc |-> PaperToc(toc, fm.metadata),
                         content |-> fm.markdown]]


(***************************************************************************)
(* PaperProcessor: process_paper, clear, get_paper_count                   *)
(***************************************************************************)
\* process_paper, had it fallen back to the whole text as body on Err
process_paper_best_effort(stored, filename, content) ==
    LET match(r) ==
            IF r.ok
            THEN [papers |-> Append(stored, r.paper), ret |-> "Ok", log |-> r.log]
            ELSE [papers |-> Append(stored, [title |-> Slug(filename), slug |-> Slug(filename),
                                             filename |-> filename, summary |-> NoSummary,
                                             abstract_text |-> <<>>, toc |-> <<>>,
                                             content |-> content]),
                  ret |-> "Err", log |-> r.log \o <<"Error processing">>]
    IN  match(process_single_paper(filename, content))

\* process_paper on the collection `stored`: the collection after the call,
\* the Result returned and the messages logged
process_paper(stored, filename, content) ==
    LET match(r) ==
            IF r.ok
            THEN [papers |-> Append(stored, r.paper), ret |-> "Ok", log |-> r.log]
            ELSE [papers |-> stored, ret |-> "Err", log |-> r.log \o <<"Error processing">>]
    IN  match(process_single_paper(filename, content))

\* self.papers.len()
get_paper_count(stored) == Len(stored)

(***************************************************************************)
(* PaperProcessor: markdown_to_html                                        *)
(***************************************************************************)
\* The markup is a sequence of tokens: a character of text, or a tag.  The
\* argument is kept as the events the parser yields for it: headings, each
\* with a level and inline content, an inline being a character of text or
\* an emphasised character.
Char(c) == [t |-> "char", c |-> c]
OpenHeading(level, id) == [t |-> "open", level |-> level, id |-> id]
CloseHeading(level) == [t |-> "close", level |-> level]
EmOpen == [t |-> "tag", name |-> "<em>"]
EmClose == [t |-> "tag", name |-> "</em>"]

Chars(s) == [i \in 1..Len(s) |-> Char(s[i])]

\* the writer's escaping of text
Escape(c) ==
    IF c = "&" THEN <<"&", "a", "m", "p", ";">>
    ELSE IF c = "<" THEN <<"&", "l", "t", ";">>
    ELSE IF c = ">" THEN <<"&", "g", "t", ";">>
    ELSE <<c>>

RECURSIVE RenderInlines(_)
RenderInlines(inlines) ==
    IF inlines = <<>> THEN <<>>
    ELSE LET x == Head(inlines)
         IN  (IF x.em THEN <<EmOpen>> \o Chars(Escape(x.c)) \o <<EmClose>>
              ELSE Chars(Escape(x.c)))
             \o RenderInlines(Tail(inlines))

RECURSIVE push_html(_)
\* html::push_html on the events of headings: <hN>inlines</hN> and a line feed each
push_html(events) ==
    IF events = <<>> THEN <<>>
    ELSE LET h == Head(events)
         IN  <<OpenHeading(h.level, None)>> \o RenderInlines(h.inlines)
               \o <<CloseHeading(h.level), Char("LF")>> \o push_html(Tail(events))

Punctuation == {"!", "?", ":", ";", ",", ".", "\"", "'", "(", ")", "[", "]", "{", "}"}

RECURSIVE Remove(_, _)
\* str::replace(&[chars], "")
Remove(s, set) ==
    IF s = <<>> THEN <<>>
    ELSE IF Head(s) \in set THEN Remove(Tail(s), set)
    ELSE <<Head(s)>> \o Remove(Tail(s), set)

\* text.to_lowercase().replace(" ", "-").replace(&[...], "")
HeadingId(text) ==
    Remove([i \in 1..Len(text) |-> IF LowerChar(text[i]) = " " THEN "-" ELSE LowerChar(text[i])],
           Punctuation)

\* the number of tokens from index i on that [^<]+ takes: the text characters
TextRun(tokens, i) ==
    LET stops == {j \in i..Len(tokens) : tokens[j].t # "char" \/ tokens[j].c = "<"}
    IN  (IF stops = {} THEN Len(tokens) + 1 ELSE Min(stops)) - i

\* <h(\d)>([^<]+)</h\d> matches at index i
HeadingMatchAt(tokens, i) ==
    /\ tokens[i].t = "open"
    /\ tokens[i].id = None
    /\ TextRun(tokens, i + 1) >= 1
    /\ i + 1 + TextRun(tokens, i + 1) <= Len(tokens)
    /\ tokens[i + 1 + TextRun(tokens, i + 1)].t = "close"

RECURSIVE ReplaceAllFrom(_, _)
\* heading_regex.replace_all from index i on
ReplaceAllFrom(tokens, i) ==
    IF i > Len(tokens) THEN <<>>
    ELSE IF HeadingMatchAt(tokens, i)
    THEN LET n == TextRun(tokens, i + 1)
             text == SubSeq(tokens, i + 1, i + n)
             level == tokens[i].level
         IN  <<OpenHeading(level, Some(HeadingId([k \in 1..n |-> text[k].c])))>>
               \o text \o <<CloseHeading(level)>> \o ReplaceAllFrom(tokens, i + n + 2)
    ELSE <<tokens[i]>> \o ReplaceAllFrom(tokens, i + 1)

markdown_to_html(events) == ReplaceAllFrom(push_html(events), 1)


(***************************************************************************)
(* process_tar_archive                                                     *)
(***************************************************************************)
MaxBlocks == 4
\* a scan that has not ended is followed for IterCap runs of the loop body
IterCap == MaxBlocks + 2

NameMd == <<"a", ".", "m", "d">>
NameTxt == <<"a", ".", "t", "x", "t", "NUL", ".", "m", "d">>

SizeField10 == <<"0", "0", "0", "0", "0", "0", "0", "0", "0", "1", "2", " ">>
\* not octal: read as 0
SizeFieldBad == <<"1", "2", "8", "NUL", "NUL", "NUL", "NUL", "NUL", "NUL", "NUL", "NUL", "NUL">>
\* 2^32 - 512
SizeFieldWrap == <<"3", "7", "7", "7", "7", "7", "7", "7", "0", "0", "0", "NUL">>
\* 2^32 + 10
SizeFieldOver == <<"4", "0", "0", "0", "0", "0", "0", "0", "0", "1", "2", "NUL">>
\* 8^12 - 1
SizeFieldMax == <<"7", "7", "7", "7", "7", "7", "7", "7", "7", "7", "7", "7">>

ZeroSize == [i \in 1..12 |-> "NUL"]
ZeroBlock == [name |-> <<>>, size |-> ZeroSize, other |-> FALSE]

\* a 512-byte block: its name field (trailing NULs left out), its size field,
\* and whether any byte outside the two fields is non-zero
Block(name, size) == [name |-> name, size |-> size, other |-> TRUE]

Blocks == {
    ZeroBlock,
    Block(NameMd, SizeField10),
    Block(NameTxt, SizeField10),
    Block(NameMd, SizeFieldBad),
    Block(NameMd, SizeFieldOver),
    Block(NameTxt, SizeFieldWrap),
    Block(NameMd, SizeFieldMax) }

Tails == {0, 10}

RECURSIVE SeqsUpTo(_, _)
SeqsUpTo(S, n) ==
    IF n = 0 THEN {<<>>}
    ELSE LET P == SeqsUpTo(S, n - 1)
         IN  P \cup {Append(p, x) : p \in {q \in P : Len(q) = n - 1}, x \in S}

\* tar_data.len()
TarLen == Num(Len(tar_data), tar_tail)

\* offset + 512
HeaderEnd == AddUsize(offset, Num(1, 0))

\* `offset + 512 <= tar_data.len()` evaluates (no overflow panic) and is true
LoopCondition == ~(overflow_checks /\ HeaderEnd.ovf) /\ Le(HeaderEnd.val, TarLen)

\* &tar_data[offset..offset + 512] is a valid slice
HeaderReadable == LoopCondition /\ Le(offset, HeaderEnd.val)

Header == tar_data[offset.b + 1]

\* HeaderSize of every size field of Blocks, decoded once
DecodedSize == [f \in {b.size : b \in Blocks} |-> HeaderSize([size |-> f])]

Size == DecodedSize[Header.size]

\* size > 0 && filename.ends_with(".md")
IsMarkdownEntry == Size # Num(0, 0) /\ EndsWith(HeaderFilename(Header), DotMd)

\* offset + size as usize, after `offset += 512`
ContentEnd == AddUsize(HeaderEnd.val, AsUsize(Size))

\* offset += padded_size as usize, after `offset += 512`
NextOffset == AddUsize(HeaderEnd.val, AsUsize(PaddedSize(Size)))

\* content_end <= tar_data.len()
ContentFits == Le(ContentEnd.val, TarLen)

\* the places where the iteration panics: an overflow under overflow checks,
\* or a slice whose start lies after its end
IterationPanics ==
    \/ overflow_checks /\ HeaderEnd.ovf
    \/ LoopCondition /\ ~Le(offset, HeaderEnd.val)
    \/ /\ HeaderReadable
       /\ ~HeaderAllZero(Header)
       /\ \/ IsMarkdownEntry /\ overflow_checks /\ ContentEnd.ovf
          \/ IsMarkdownEntry /\ ContentFits /\ ~Le(HeaderEnd.val, ContentEnd.val)
          \/ overflow_checks /\ NextOffset.ovf

\* the other operations are not in use
DocIdle == arg_filename = <<>> /\ arg_content = <<>> /\ ppc = "idle" /\ outcome = None /\ console = <<>>

ProcIdle == papers = <<>> /\ history = <<>> /\ calls = 0

HtmlIdle == arg_markdown = <<>> /\ html_output = <<>> /\ hpc = "idle"

TarIdle ==
    /\ tar_data = <<>>
    /\ tar_tail = 0
    /\ overflow_checks = FALSE
    /\ offset = Num(0, 0)
    /\ files = <<>>
    /\ tpc = "idle"
    /\ iterations = 0

TarInit ==
    /\ tar_data \in SeqsUpTo(Blocks, MaxBlocks) \ {<<>>}
    /\ tar_tail \in Tails
    /\ overflow_checks \in BOOLEAN
    /\ offset = Num(0, 0)
    /\ files = <<>>
    /\ tpc = "loop"
    /\ iterations = 0
    /\ DocIdle
    /\ ProcIdle
    /\ HtmlIdle

\* while offset + 512 <= tar_data.len() fails: fewer than 512 bytes remain
TarEndOfBuffer ==
    /\ tpc = "loop"
    /\ ~IterationPanics
    /\ ~LoopCondition
    /\ tpc' = "done"
    /\ UNCHANGED <<docvars, console, procvars, htmlvars>>
    /\ UNCHANGED <<tar_data, tar_tail, overflow_checks, offset, files, iterations>>

\* the header is all zeros: break
TarTerminator ==
    /\ tpc = "loop"
    /\ iterations < IterCap
    /\ ~IterationPanics
    /\ HeaderReadable
    /\ HeaderAllZero(Header)
    /\ tpc' = "done"
    /\ iterations' = iterations + 1
    /\ UNCHANGED <<docvars, console, procvars, htmlvars>>
    /\ UNCHANGED <<tar_data, tar_tail, overflow_checks, offset, files>>

\* a ".md" entry of size > 0 whose content_end is inside the buffer
TarExtract ==
    /\ tpc = "loop"
    /\ iterations < IterCap
    /\ ~IterationPanics
    /\ HeaderReadable
    /\ ~HeaderAllZero(Header)
    /\ IsMarkdownEntry
    /\ ContentFits
    /\ files' = Append(files, [filename |-> HeaderFilename(Header),
                               from |-> HeaderEnd.val, to |-> ContentEnd.val])
    /\ offset' = NextOffset.val
    /\ iterations' = iterations + 1
    /\ UNCHANGED <<docvars, console, procvars, htmlvars>>
    /\ UNCHANGED <<tar_data, tar_tail, overflow_checks, tpc>>

\* a ".md" entry of size > 0 whose content_end is past the buffer
TarTruncated ==
    /\ tpc = "loop"
    /\ iterations < IterCap
    /\ ~IterationPanics
    /\ HeaderReadable
    /\ ~HeaderAllZero(Header)
    /\ IsMarkdownEntry
    /\ ~ContentFits
    /\ offset' = NextOffset.val
    /\ iterations' = iterations + 1
    /\ UNCHANGED <<docvars, console, procvars, htmlvars>>
    /\ UNCHANGED <<tar_data, tar_tail, overflow_checks, files, tpc>>

\* skip non-markdown files or empty files
TarSkip ==
    /\ tpc = "loop"
    /\ iterations < IterCap
    /\ ~IterationPanics
    /\ HeaderReadable
    /\ ~HeaderAllZero(Header)
    /\ ~IsMarkdownEntry
    /\ offset' = NextOffset.val
    /\ iterations' = iterations + 1
    /\ UNCHANGED <<docvars, console, procvars, htmlvars>>
    /\ UNCHANGED <<tar_data, tar_tail, overflow_checks, files, tpc>>

TarPanic ==
    /\ tpc = "loop"
    /\ iterations < IterCap
    /\ IterationPanics
    /\ tpc' = "panic"
    /\ iterations' = IF LoopCondition THEN iterations + 1 ELSE iterations
    /\ UNCHANGED <<docvars, console, procvars, htmlvars>>
    /\ UNCHANGED <<tar_data, tar_tail, overflow_checks, offset, files>>

TarNext ==
    \/ TarEndOfBuffer
    \/ TarTerminator
    \/ TarExtract
    \/ TarTruncated
    \/ TarSkip
    \/ TarPanic

SpecTar == TarInit /\ [][TarNext]_vars

(***************************************************************************)
(* process_single_paper as an operation                                   *)
(***************************************************************************)
\* the call process_single_paper(arg_filename, arg_content) on a fresh PaperProcessor
ProcessSinglePaper ==
    /\ ppc = "call"
    /\ outcome' = process_single_paper(arg_filename, arg_content)
    /\ console' = console \o outcome'.log
    /\ ppc' = "return"
    /\ UNCHANGED <<arg_filename, arg_content>>
    /\ UNCHANGED <<tarvars, procvars, htmlvars>>

PaperNext == ProcessSinglePaper

\* process_single_paper on one document of a set of inputs
PaperInit(filenames, contents) ==
    /\ arg_filename \in filenames
    /\ arg_content \in contents
    /\ ppc = "call"
    /\ outcome = None
    /\ console = <<>>
    /\ TarIdle
    /\ ProcIdle
    /\ HtmlIdle

Filenames == {<<"a", ".", "m", "d">>, <<"n", "o", "t", "e", "s">>}

\* the lines joined with LF
Text(lines) == Join(lines, <<"LF">>)

\* the texts of up to n lines of a set of lines
TextsUpTo(lineSet, n) == {Text(ls) : ls \in SeqsUpTo(lineSet, n)}


\* the longest body, in lines, of the documents drawn
MaxLines == 3

\* leading text: none, a metadata block, and texts close to one
FrontmatterPrefixes == {
    <<>>,
    <<"-", "-", "-", "LF", "t", "i", "t", "l", "e", ":", " ", "T", "LF", "-", "-", "-", "LF">>,
    <<"-", "-", "-", "LF", "t", "i", "t", "l", "e", ":", " ", "T", "LF", "-", "-", "-">>,
    <<" ", "-", "-", "-", "LF", "t", "i", "t", "l", "e", ":", " ", "T", "LF", "-", "-", "-", "LF">>,
    <<"-", "-", "-", "t", "i", "t", "l", "e", ":", " ", "T", "LF", "-", "-", "-", "LF">>,
    <<"-", "-", "-", "LF", "t", "i", "t", "l", "e", ":", " ", "[", "LF", "-", "-", "-", "LF">>,
    <<"-", "-", "-", "LF", "t", "o", "c", ":", " ", "[", "A", "]", "LF", "-", "-", "-", "LF">> }

FrontmatterLines == {<<"-", "-", "-">>, <<"H", "e", "l", "l", "o">>, <<>>}

FrontmatterInputs ==
    {p \o t : p \in FrontmatterPrefixes, t \in TextsUpTo(FrontmatterLines, MaxLines)}

SpecFrontmatter == PaperInit(Filenames, FrontmatterInputs) /\ [][PaperNext]_vars

ExampleBody == <<"#", "#", " ", "T", "a", "b", "l", "e", " ", "o", "f", " ", "C", "o", "n", "t", "e", "n", "t", "s", "LF", "1", ".", " ", "*", "*", "I", "n", "t", "r", "o", "*", "*", "LF", "2", ".", " ", "*", "*", "M", "e", "t", "h", "o", "d", "s", "*", "*", "LF", "#", "#", " ", "S", "u", "m", "m", "a", "r", "y", "LF", "H", "e", "l", "l", "o">>

ItemIntro == <<"1", ".", " ", "*", "*", "I", "n", "t", "r", "o", "*", "*">>
ItemMethods == <<"2", ".", " ", "*", "*", "M", "e", "t", "h", "o", "d", "s", "*", "*">>
SummaryHeading == <<"#", "#", " ", "S", "u", "m", "m", "a", "r", "y">>
Hello == <<"H", "e", "l", "l", "o">>

TocLines == {
    TocHeading,
    <<"#", "#", "#", " ", "T", "a", "b", "l", "e", " ", "o", "f", " ", "C", "o", "n", "t", "e", "n", "t", "s">>,
    <<"#", "#", " ", "T", "a", "b", "l", "e", " ", "o", "f", " ", "C", "o", "n", "t", "e", "n", "t", "s", " ", "(", "d", "r", "a", "f", "t", ")">>,
    <<"S", "e", "e", " ", "#", "#", " ", "T", "a", "b", "l", "e", " ", "o", "f", " ", "C", "o", "n", "t", "e", "n", "t", "s">>,
    ItemIntro,
    ItemMethods,
    SummaryHeading,
    Hello }

TocPrefixes == {<<>>, <<"-", "-", "-", "LF", "t", "o", "c", ":", " ", "[", "A", "]", "LF", "-", "-", "-", "LF">>}

TocInputs ==
    {p \o t : p \in TocPrefixes, t \in {ExampleBody} \cup TextsUpTo(TocLines, MaxLines)}

SpecToc == PaperInit({<<"a", ".", "m", "d">>}, TocInputs) /\ [][PaperNext]_vars

SectionLines == {<<"#", "#", " ", "a">>, <<" ", "#", "#", " ", "a">>, <<"a">>, <<"a", "CR", "CR">>, <<>>}

SpecSections ==
    PaperInit({<<"a", ".", "m", "d">>}, TextsUpTo(SectionLines, MaxLines)) /\ [][PaperNext]_vars


(***************************************************************************)
(* The PaperProcessor as an object                                         *)
(***************************************************************************)
MaxCalls == 4

ProcDocs == {
    <<"-", "-", "-", "LF", "t", "i", "t", "l", "e", ":", " ", "T", "LF", "-", "-", "-", "LF", "#", "#", " ", "S", "u", "m", "m", "a", "r", "y", "LF", "H", "e", "l", "l", "o">>,
    <<"-", "-", "-", "LF", "t", "o", "c", ":", " ", "[", "A", "]", "LF", "-", "-", "-", "LF", "H", "e", "l", "l", "o">>,
    <<"-", "-", "-", "LF", "t", "i", "t", "l", "e", ":", " ", "[", "LF", "-", "-", "-", "LF", "H", "e", "l", "l", "o">>,
    <<"H", "e", "l", "l", "o">> }

\* PaperProcessor::new()
ProcInit ==
    /\ papers = <<>>
    /\ history = <<>>
    /\ calls = 0
    /\ console = <<>>
    /\ arg_filename = <<>> /\ arg_content = <<>> /\ ppc = "idle" /\ outcome = None
    /\ TarIdle
    /\ HtmlIdle

ProcessPaper(fname, text) ==
    /\ calls < MaxCalls
    /\ \E r \in {process_paper(papers, fname, text)} :
           /\ papers' = r.papers
           /\ console' = console \o r.log
           /\ history' = Append(history, [op |-> "process_paper", filename |-> fname,
                                          content |-> text, ret |-> r.ret])
    /\ calls' = calls + 1
    /\ UNCHANGED <<tarvars, docvars, htmlvars>>

Clear ==
    /\ calls < MaxCalls
    /\ papers' = <<>>
    /\ history' = <<>>
    /\ calls' = calls + 1
    /\ UNCHANGED <<tarvars, docvars, console, htmlvars>>

GetPaperCount ==
    /\ calls < MaxCalls
    /\ history' = Append(history, [op |-> "get_paper_count", ret |-> get_paper_count(papers)])
    /\ calls' = calls + 1
    /\ UNCHANGED <<tarvars, docvars, console, papers, htmlvars>>

ProcNext ==
    \/ \E text \in ProcDocs : ProcessPaper(<<"a", ".", "m", "d">>, text)
    \/ Clear
    \/ GetPaperCount

Spec == ProcInit /\ [][ProcNext]_vars

(***************************************************************************)
(* markdown_to_html as an operation                                        *)
(***************************************************************************)
MaxHeadings == 2

Plain(s) == [i \in 1..Len(s) |-> [c |-> s[i], em |-> FALSE]]
Em(s) == [i \in 1..Len(s) |-> [c |-> s[i], em |-> TRUE]]

\* "Foo, Bar!", "A B", "A *B*" and "A&B"
HeadingContents == {
    Plain(<<"F", "o", "o", ",", " ", "B", "a", "r", "!">>),
    Plain(<<"A", " ", "B">>),
    Plain(<<"A", " ">>) \o Em(<<"B">>),
    Plain(<<"A", "&", "B">>) }

Levels == {1, 2}

HtmlInit ==
    /\ arg_markdown \in SeqsUpTo([level : Levels, inlines : HeadingContents], MaxHeadings)
    /\ html_output = <<>>
    /\ hpc = "call"
    /\ TarIdle
    /\ DocIdle
    /\ ProcIdle

MarkdownToHtml ==
    /\ hpc = "call"
    /\ html_output' = markdown_to_html(arg_markdown)
    /\ hpc' = "return"
    /\ UNCHANGED <<arg_markdown, tarvars, docvars, console, procvars>>

HtmlNext == MarkdownToHtml

SpecHtml == HtmlInit /\ [][HtmlNext]_vars


(***************************************************************************)
(* Claims about process_tar_archive                                        *)
(***************************************************************************)
\* the loop body runs on a header that is not the terminator
AtEntry == tpc = "loop" /\ iterations < IterCap /\ HeaderReadable /\ Header # ZeroBlock

\* offset + 512 + size, the end of the declared content, without any wrap-around
DeclaredContentEnd == Num(offset.b + 1 + Size.b, Size.r)

\* offset + 512 + the declared size rounded up to a multiple of 512, without wrap-around
DeclaredNextOffset == Num(offset.b + 1 + PaddedSize(Size).b, offset.r)

\* C1: an entry whose name does not end in ".md" or whose size is 0 is not
\* output, and the cursor moves past its header and its declared size
\* rounded up to the next multiple of 512.
C1_SkippedEntryAdvancesCursor ==
    [][(AtEntry /\ ~IsMarkdownEntry)
         => (files' = files /\ tpc' = "loop" /\ offset' = DeclaredNextOffset)]_vars

\* C2: once the cursor is at an all-zero header block the scan stops, and
\* the output stays what it was on reaching that block, whatever follows.
C2_StopsAtTerminator ==
    [][/\ (tpc = "loop" /\ HeaderReadable /\ Header = ZeroBlock)
            => (tpc' = "done" /\ files' = files /\ offset' = offset)
       /\ tpc = "done" => (tpc' = "done" /\ files' = files)]_vars

\* the scan has stopped at an all-zero block after extracting an entry, and a
\* complete ".md" entry lies after that block
C2_Witness ==
    /\ tpc = "done"
    /\ files # <<>>
    /\ HeaderReadable
    /\ Header = ZeroBlock
    /\ \E j \in (offset.b + 2)..Len(tar_data) :
          /\ tar_data[j] = Block(NameMd, SizeField10)
          /\ Le(Num(j, 10), TarLen)

\* C3: with wrap-around arithmetic, a ".md" entry with fewer than `size`
\* bytes after its header is not output, in whole or in part, and its
\* processing does not panic.
C3_ShortEntrySkipped ==
    [][(~overflow_checks /\ AtEntry /\ IsMarkdownEntry /\ Lt(TarLen, DeclaredContentEnd))
         => (files' = files /\ tpc' # "panic")]_vars

\* C10: with wrap-around arithmetic, every run of the loop body moves the
\* cursor forward by at least 512 and keeps it a multiple of 512, so the
\* body runs at most len / 512 times.
C10_CursorIncreases ==
    ~overflow_checks => (iterations <= Len(tar_data) /\ offset.r = 0)

(***************************************************************************)
(* Claims about process_single_paper                                       *)
(***************************************************************************)
Returned == ppc = "return"

\* the text has no leading metadata block
NoMetadataBlock == FrontmatterCaptures(arg_content) = None

\* title is the filename without a trailing ".md"
TitleIsSlug ==
    IF EndsWith(arg_filename, DotMd)
    THEN outcome.paper.title \o DotMd = arg_filename
    ELSE outcome.paper.title = arg_filename

\* C4 as stated: a document without a metadata block is processed
\* successfully, its title is the slug of the filename, and exactly one
\* diagnostic is logged.
C4_OneDiagnostic ==
    (Returned /\ NoMetadataBlock) => (outcome.ok /\ TitleIsSlug /\ Len(console) = 1)

\* C4, amended: a document without a metadata block is processed
\* successfully, its title is the slug of the filename, and exactly two
\* diagnostics are logged: no metadata block found, then title missing.
C4_TwoDiagnostics ==
    (Returned /\ NoMetadataBlock)
        => /\ outcome.ok
           /\ TitleIsSlug
           /\ console = <<"No frontmatter found", "WARNING: missing title">>

\* a text that opens with --- and still has no metadata block was processed
C4_Witness ==
    /\ Returned
    /\ NoMetadataBlock
    /\ StartsWith(arg_content, Dashes)
    /\ arg_filename = <<"a", ".", "m", "d">>
    /\ outcome.paper.title = <<"a">>
    /\ Len(console) = 2

\* the body handed to the extractors
Body == outcome.paper.content
BodyLines == Lines(Body)

\* the TOC items of the inputs and their texts
ItemText == (ItemIntro :> <<"I", "n", "t", "r", "o">>) @@ (ItemMethods :> <<"M", "e", "t", "h", "o", "d", "s">>)

\* the section headings of the inputs and their keys
SectionKey == (SummaryHeading :> <<"s", "u", "m", "m", "a", "r", "y">>)

TocKeyText == <<"t", "a", "b", "l", "e", " ", "o", "f", " ", "c", "o", "n", "t", "e", "n", "t", "s">>

\* the body is "## Table of Contents", k item lines, then one or more
\* second-level sections
TocShape(k) ==
    /\ Len(BodyLines) >= k + 2
    /\ BodyLines[1] = TocHeading
    /\ \A i \in 2..(k + 1) : BodyLines[i] \in DOMAIN ItemText
    /\ BodyLines[k + 2] \in DOMAIN SectionKey
    /\ \A i \in (k + 3)..Len(BodyLines) :
          BodyLines[i] \in DOMAIN SectionKey \cup DOMAIN ItemText \cup {Hello}

\* the lines after heading line i, up to the next heading line
LinesUnder(i) ==
    LET later == {j \in (i + 1)..Len(BodyLines) : BodyLines[j] \in DOMAIN SectionKey}
        stop == IF later = {} THEN Len(BodyLines) + 1 ELSE Min(later)
    IN  SubSeq(BodyLines, i + 1, stop - 1)

\* the sections after the TOC: each key with the lines under its last heading
FollowingSections(k) ==
    LET at(key) == Max({i \in (k + 2)..Len(BodyLines) :
                          BodyLines[i] \in DOMAIN SectionKey /\ SectionKey[BodyLines[i]] = key})
    IN  [key \in {SectionKey[BodyLines[i]] :
                    i \in {j \in (k + 2)..Len(BodyLines) : BodyLines[j] \in DOMAIN SectionKey}}
           |-> Text(LinesUnder(at(key)))]

TocTexts(k) == [i \in 1..k |-> ItemText[BodyLines[i + 1]]]

\* C5 as stated: for such a body extract_toc returns the item texts in line
\* order and the section map holds exactly the sections after the TOC.
C5_OnlyFollowingSections ==
    Returned => \A k \in 0..MaxLines :
        TocShape(k) => /\ outcome.toc = TocTexts(k)
                       /\ outcome.sections = FollowingSections(k)

\* C5, amended: for such a body extract_toc returns the item texts in line
\* order, and the section map holds the sections after the TOC and, under
\* the key "table of contents", the item lines themselves.
C5_TocSectionIncluded ==
    Returned => \A k \in 0..MaxLines :
        TocShape(k) =>
            /\ outcome.toc = TocTexts(k)
            /\ outcome.sections =
                 (TocKeyText :> Text(SubSeq(BodyLines, 2, k + 1))) @@ FollowingSections(k)

\* the example body was processed
C5_Witness ==
    /\ Returned
    /\ Body = ExampleBody
    /\ outcome.toc = <<<<"I", "n", "t", "r", "o">>, <<"M", "e", "t", "h", "o", "d", "s">>>>
    /\ outcome.sections = (<<"s", "u", "m", "m", "a", "r", "y">> :> Hello)
                            @@ (TocKeyText :> <<"1", ".", " ", "*", "*", "I", "n", "t", "r", "o", "*", "*", "LF", "2", ".", " ", "*", "*", "M", "e", "t", "h", "o", "d", "s", "*", "*">>)

\* Metadata.toc of the input, else empty: the metadata block of TocPrefixes is toc: [A]
MetadataToc == IF FrontmatterCaptures(arg_content) # None THEN <<<<"A">>>> ELSE <<>>

\* C6: when no line of the body is exactly "## Table of Contents",
\* extract_toc returns the empty sequence and the record's toc is
\* Metadata.toc if present, else empty.
C6_NoTocHeadingNoToc ==
    (Returned /\ \A i \in 1..Len(BodyLines) : BodyLines[i] # TocHeading)
        => /\ outcome.toc = <<>>
           /\ outcome.paper.toc = MetadataToc

SummaryLine == <<"#", "#", " ", "s", "u", "m", "m", "a", "r", "y", "LF">>

\* C8 as stated: re-extracting from "## summary\n" + c gives c back under
\* "summary" and no other section, for every extracted section content c.
C8_Idempotent ==
    Returned => \A key \in DOMAIN outcome.sections :
        parse_markdown_sections(SummaryLine \o outcome.sections[key])
            = (SummaryKey :> outcome.sections[key])

\* C8, amended: the same for every extracted content c that does not begin
\* with "## " and has no carriage return right before a line feed.
C8_IdempotentOnPlainContent ==
    Returned => \A key \in DOMAIN outcome.sections :
        (/\ ~StartsWith(outcome.sections[key], HeadingMarker)
         /\ Find(outcome.sections[key], <<"CR", "LF">>) = 0)
            => parse_markdown_sections(SummaryLine \o outcome.sections[key])
                 = (SummaryKey :> outcome.sections[key])

\* a content of several lines, trimmed on extraction, was extracted
C8_Witness ==
    /\ Returned
    /\ arg_content = <<"#", "#", " ", "a", "LF", "a", "LF", "a">>
    /\ outcome.sections = (<<"a">> :> <<"a", "LF", "a">>)

(***************************************************************************)
(* Claims about the PaperProcessor object and markdown_to_html             *)
(***************************************************************************)
\* the text has a metadata block that does not parse
MalformedBlock(text) ==
    /\ FrontmatterCaptures(text) # None
    /\ ~YamlParse(FrontmatterCaptures(text)[1].yaml).ok

IsProcess(h) == h.op = "process_paper"
Succeeded(h) == h.op = "process_paper" /\ h.ret = "Ok"

\* C7: a process_paper call on a document with a malformed metadata block
\* returns Err and stores nothing; the collection is, in call order, the
\* records of the calls that returned Ok since the last clear, and
\* get_paper_count returns the number of those calls.
C7_CollectionIsSuccesses ==
    LET ok == SelectSeq(history, Succeeded)
    IN  /\ \A i \in 1..Len(history) :
              (IsProcess(history[i]) /\ MalformedBlock(history[i].content))
                  => history[i].ret = "Err"
        /\ Len(papers) = Len(ok)
        /\ \A i \in 1..Len(ok) :
              papers[i] = process_single_paper(ok[i].filename, ok[i].content).paper
        /\ \A i \in 1..Len(history) :
              history[i].op = "get_paper_count"
                  => history[i].ret = Len(SelectSeq(SubSeq(history, 1, i), Succeeded))

\* a failing call between two successful ones, then the count read
C7_Witness ==
    /\ Len(history) = 4
    /\ history[1].ret = "Ok"
    /\ IsProcess(history[2]) /\ MalformedBlock(history[2].content) /\ history[2].ret = "Err"
    /\ history[3].ret = "Ok"
    /\ history[4] = [op |-> "get_paper_count", ret |-> 2]
    /\ Len(papers) = 2

\* the heading's own text: its characters, emphasised or not
OwnText(h) == [i \in 1..Len(h.inlines) |-> h.inlines[i].c]

\* the slug as the claim defines it
ClaimSlug(text) == HeadingId(text)

OpenTags == SelectSeq(html_output, LAMBDA x : x.t = "open")

\* C9: every heading element of the output carries an id, the slug of the
\* heading's own text, whatever its content.
C9_EveryHeadingHasId ==
    hpc = "return" =>
        /\ Len(OpenTags) = Len(arg_markdown)
        /\ \A i \in 1..Len(arg_markdown) :
              OpenTags[i] = OpenHeading(arg_markdown[i].level,
                                        Some(ClaimSlug(OwnText(arg_markdown[i]))))

====
